---------------------------- MODULE Spec2Model ----------------------------
(***************************************************************************)
(* A model of scripts/sync-skills.js, the data-sync script of the skills   *)
(* marketplace (its text is the second half of src/README.md).             *)
(*                                                                         *)
(* Six specifications share the module:                                    *)
(*   Spec         main(): the orchestrator, run after run over one disk    *)
(*   SpecScan     scanSkills(), the entries of skills-collection varying   *)
(*   SpecReaders  scanSkills(), the health of the metadata sources varying *)
(*   SpecMerge    scanSkills() on one entity, its three sources varying    *)
(*   SpecFiles    scanSkillFiles() on a directory tree                     *)
(*   SpecTags     calculateTags() on a sequence of entities                *)
(***************************************************************************)
EXTENDS Integers, Sequences, FiniteSets, TLC

VARIABLES
    pc,              \* position of main(), or the phase of a function's specification
    localRepo,       \* fs.access(CONFIG.localRepoPath) succeeds
    remoteRepoUrl,   \* CONFIG.remoteRepoUrl is set (--repo=)
    src,             \* the skills-repo tree the run reads
    repoPath,        \* main's repoPath
    skills,          \* main's skills / the argument of calculateTags
    packed,          \* number of skills the packaging loop has handled
    saved,           \* number of skills the content loop has handled
    downloads,       \* files of CONFIG.downloadsDir
    outputFile,      \* content of CONFIG.outputPath (src/data/skills.json)
    contentFiles,    \* files of src/data/contents
    tempCloneDir,    \* CONFIG.tempCloneDir exists on disk
    exitCode,        \* exit status of the process
    trace,           \* steps the current run has entered, in order
    written,         \* output files the current run has written
    skillsIndex,     \* scanSkills' skillsIndex
    skillsJsonData,  \* scanSkills' skillsJsonData
    tree,            \* the directory scanSkillFiles walks
    files,           \* what scanSkillFiles returned
    tags             \* what calculateTags returned

mainVars == <<pc, localRepo, remoteRepoUrl, src, repoPath, skills, packed, saved,
              downloads, outputFile, contentFiles, tempCloneDir, exitCode,
              trace, written>>
scanVars == <<skillsIndex, skillsJsonData>>
fileVars == <<tree, files>>
vars == <<mainVars, scanVars, fileVars, tags>>

(***************************************************************************)
(* Bounds of the model.                                                    *)
(***************************************************************************)
MaxFiles == 4
MaxDirs == 1
MaxSkills == 2
MaxTags == 4
MaxEntries == 2
MaxIndexEntries == 2
MaxJsonFiles == 2

(***************************************************************************)
(* JavaScript values.  A missing property reads as undefined; a || b       *)
(* yields a unless a is falsy (undefined or the empty string here).        *)
(***************************************************************************)
Undefined == "undefined"

Truthy(v) == v \notin {Undefined, ""}

Or(a, b) == IF Truthy(a) THEN a ELSE b

Range(s) == {s[i] : i \in DOMAIN s}

(***************************************************************************)
(* Array.prototype.sort(comparefn).  The sort is stable.  When comparefn   *)
(* is inconsistent on a pair (it puts each of the two before the other)    *)
(* the order of that pair is implementation-defined: any order may result. *)
(* cmp[i][j] is comparefn(s[i], s[j]).                                     *)
(***************************************************************************)
RECURSIVE PermsOf(_)
PermsOf(S) ==
    IF S = {} THEN {<<>>}
    ELSE UNION {{<<x>> \o p : p \in PermsOf(S \ {x})} : x \in S}

Perms(n) == PermsOf(1..n)

SortOrders(n, cmp) ==
    {p \in Perms(n) :
        \A i, j \in 1..n : i < j =>
            LET x == p[i]
                y == p[j]
            IN  /\ ~(cmp[y][x] < 0 /\ cmp[x][y] > 0)
                /\ (cmp[x][y] = 0 /\ cmp[y][x] = 0) => x < y}

SortOutcomes(s, cmp) ==
    {[i \in 1..Len(s) |-> s[p[i]]] : p \in SortOrders(Len(s), cmp)}

(***************************************************************************)
(* File names, with the two orders on them.  OrdinalRank is the order of   *)
(* the UTF-16 code units ('B' 66 < 'S' 83 < 'a' 97 < 'r' 114);             *)
(* LocaleRank is the order of String.prototype.localeCompare, the ICU      *)
(* collation, which puts letters in alphabetical order whatever their case *)
(* (a < B < r < S).                                                        *)
(***************************************************************************)
FileNames == {"SKILL.md", "a.md", "B.md", "run.sh"}
DirNames == {"lib"}

OrdinalRank(name) ==
    CASE name = "B.md" -> 1
      [] name = "SKILL.md" -> 2
      [] name = "a.md" -> 3
      [] name = "run.sh" -> 4

LocaleRank(name) ==
    CASE name = "a.md" -> 1
      [] name = "B.md" -> 2
      [] name = "run.sh" -> 3
      [] name = "SKILL.md" -> 4

Sign(n) == IF n < 0 THEN -1 ELSE IF n > 0 THEN 1 ELSE 0

localeCompare(a, b) == Sign(LocaleRank(a) - LocaleRank(b))

extname(name) ==
    CASE name \in {"SKILL.md", "a.md", "B.md"} -> ".md"
      [] name = "run.sh" -> ".sh"
      [] OTHER -> ""

getFileType(ext) ==
    CASE ext \in {".md", ".mdx"} -> "markdown"
      [] ext \in {".js", ".ts", ".jsx", ".tsx", ".json", ".yaml", ".yml", ".sh",
                  ".bash", ".py", ".rb", ".go", ".rs", ".java", ".c", ".cpp", ".h",
                  ".css", ".scss", ".less", ".html", ".xml"} -> "code"
      [] ext = ".txt" -> "text"
      [] OTHER -> "text"

(***************************************************************************)
(* A directory is the sequence of its entries in fs.readdir order; an      *)
(* entry is [name, isDir, readable, children].  readable says whether      *)
(* fs.readdir of a sub-directory succeeds.                                 *)
(***************************************************************************)
File(name) == [name |-> name, isDir |-> FALSE, readable |-> TRUE, children |-> <<>>]

Dir(name, readable, children) ==
    [name |-> name, isDir |-> TRUE, readable |-> readable, children |-> children]

\* scanDir: the files below dir in the order they are pushed, or a throw.
RECURSIVE scanDir(_, _, _)
scanDir(dir, relativePath, skillName) ==
    IF dir = <<>> THEN [threw |-> FALSE, files |-> <<>>]
    ELSE LET entry == Head(dir)
             relPath == Append(relativePath, entry.name)
             here == IF entry.isDir
                     THEN IF entry.readable
                          THEN scanDir(entry.children, relPath, skillName)
                          ELSE [threw |-> TRUE, files |-> <<>>]
                     ELSE [threw |-> FALSE,
                           files |-> <<[name |-> entry.name,
                                        path |-> <<skillName>> \o relPath,
                                        type |-> getFileType(extname(entry.name)),
                                        relativePath |-> relPath]>>]
             rest == scanDir(Tail(dir), relativePath, skillName)
         IN  IF here.threw THEN [threw |-> TRUE, files |-> here.files]
             ELSE [threw |-> rest.threw, files |-> here.files \o rest.files]

\* fileOrder with the names compared by code unit.
fileOrderOrdinal(a, b) ==
    IF a.name = "SKILL.md" THEN -1
    ELSE IF b.name = "SKILL.md" THEN 1
    ELSE Sign(OrdinalRank(a.name) - OrdinalRank(b.name))

\* The comparator of scanSkillFiles' sort.
fileOrder(a, b) ==
    IF a.name = "SKILL.md" THEN -1
    ELSE IF b.name = "SKILL.md" THEN 1
    ELSE localeCompare(a.name, b.name)

\* scanSkillFiles: every list the call may return; the empty set when it throws.
scanSkillFiles(skillTree, skillName) ==
    LET scan == scanDir(skillTree, <<>>, skillName)
        cmp == [i \in 1..Len(scan.files) |->
                  [j \in 1..Len(scan.files) |-> fileOrder(scan.files[i], scan.files[j])]]
    IN  IF scan.threw THEN {} ELSE SortOutcomes(scan.files, cmp)

(***************************************************************************)
(* SpecFiles: a skill directory is built up entry by entry (any readdir    *)
(* order can arise), then scanSkillFiles runs on it.  scanSkills calls it  *)
(* only after fs.access of the top-level SKILL.md has succeeded.           *)
(***************************************************************************)
RECURSIVE addAt(_, _, _)
addAt(dir, path, e) ==
    IF path = <<>> THEN Append(dir, e)
    ELSE [i \in DOMAIN dir |->
            IF dir[i].isDir /\ dir[i].name = Head(path)
            THEN [dir[i] EXCEPT !.children = addAt(@, Tail(path), e)]
            ELSE dir[i]]

RECURSIVE dirPaths(_)
dirPaths(dir) ==
    {<<>>} \cup UNION {{<<dir[i].name>> \o q : q \in dirPaths(dir[i].children)} :
                          i \in {k \in DOMAIN dir : dir[k].isDir}}

RECURSIVE dirAt(_, _)
dirAt(dir, path) ==
    IF path = <<>> THEN dir
    ELSE dirAt((CHOOSE e \in Range(dir) : e.isDir /\ e.name = Head(path)).children,
               Tail(path))

RECURSIVE countEntries(_, _)
countEntries(dir, isDir) ==
    IF dir = <<>> THEN 0
    ELSE (IF Head(dir).isDir = isDir THEN 1 ELSE 0)
         + countEntries(Head(dir).children, isDir) + countEntries(Tail(dir), isDir)

namesAt(dir, path) == {e.name : e \in Range(dirAt(dir, path))}

hasDescriptor(dir) == \E e \in Range(dir) : ~e.isDir /\ e.name = "SKILL.md"

RunIdle ==
    /\ localRepo = FALSE /\ remoteRepoUrl = FALSE /\ repoPath = "none"
    /\ packed = 0 /\ saved = 0 /\ downloads = {}
    /\ outputFile = <<>> /\ contentFiles = {} /\ tempCloneDir = FALSE
    /\ exitCode = 0 /\ trace = <<>> /\ written = {}

MainIdle == RunIdle /\ src = <<>> /\ skills = <<>>

ScanIdle == skillsIndex = <<>> /\ skillsJsonData = <<>>

FilesIdle == tree = <<>> /\ files = <<>>

TagsIdle == tags = <<>>

FilesInit == pc = "build" /\ MainIdle /\ ScanIdle /\ FilesIdle /\ TagsIdle

CreateFile ==
    /\ pc = "build"
    /\ countEntries(tree, FALSE) < MaxFiles
    /\ \E path \in dirPaths(tree), name \in FileNames \ {""} :
          /\ name \notin namesAt(tree, path)
          /\ tree' = addAt(tree, path, File(name))
    /\ UNCHANGED <<mainVars, scanVars, files, tags>>

CreateDir ==
    /\ pc = "build"
    /\ countEntries(tree, TRUE) < MaxDirs
    /\ \E path \in dirPaths(tree), name \in DirNames :
          /\ name \notin namesAt(tree, path)
          /\ tree' = addAt(tree, path, Dir(name, TRUE, <<>>))
    /\ UNCHANGED <<mainVars, scanVars, files, tags>>

ScanFiles ==
    /\ pc = "build"
    /\ hasDescriptor(tree)
    /\ files' \in scanSkillFiles(tree, "skill")
    /\ pc' = "scanned"
    /\ UNCHANGED <<localRepo, remoteRepoUrl, src, repoPath, skills, packed, saved,
                   downloads, outputFile, contentFiles, tempCloneDir, exitCode,
                   trace, written, scanVars, tree, tags>>

FilesNext == CreateFile \/ CreateDir \/ ScanFiles

SpecFiles == FilesInit /\ [][FilesNext]_vars

(***************************************************************************)
(* calculateTags.  A tag is a string, modelled as the sequence of its      *)
(* characters.  tagCount is a Map: its entries keep the order in which     *)
(* their keys were first set.                                              *)
(***************************************************************************)
Whitespace == {" "}

RECURSIVE trimStart(_)
trimStart(s) ==
    IF s # <<>> /\ Head(s) \in Whitespace THEN trimStart(Tail(s)) ELSE s

RECURSIVE trimEnd(_)
trimEnd(s) ==
    IF s # <<>> /\ s[Len(s)] \in Whitespace
    THEN trimEnd(SubSeq(s, 1, Len(s) - 1)) ELSE s

trim(s) == trimEnd(trimStart(s))

\* tagCount.get(tag) || 0
mapGet(m, key) ==
    IF \E i \in DOMAIN m : m[i].name = key
    THEN (CHOOSE e \in Range(m) : e.name = key).count
    ELSE 0

\* tagCount.set(tag, n)
mapSet(m, key, n) ==
    IF \E i \in DOMAIN m : m[i].name = key
    THEN [i \in DOMAIN m |-> IF m[i].name = key THEN [name |-> key, count |-> n] ELSE m[i]]
    ELSE Append(m, [name |-> key, count |-> n])

RECURSIVE countTags(_, _)
countTags(m, skillTags) ==
    IF skillTags = <<>> THEN m
    ELSE LET tag == Head(skillTags)
         IN  countTags(IF tag # <<>> /\ trim(tag) # <<>>
                       THEN mapSet(m, tag, mapGet(m, tag) + 1)
                       ELSE m,
                       Tail(skillTags))

RECURSIVE countSkills(_, _)
countSkills(m, list) ==
    IF list = <<>> THEN m
    ELSE countSkills(countTags(m, Head(list).tags), Tail(list))

\* byCount with the operands exchanged: ascending.
byCountAscending(a, b) == a.count - b.count

\* The comparator of calculateTags' sort.
byCount(a, b) == b.count - a.count

calculateTags(list) ==
    LET entries == countSkills(<<>>, list)
        cmp == [i \in 1..Len(entries) |->
                  [j \in 1..Len(entries) |-> byCount(entries[i], entries[j])]]
    IN  CHOOSE sorted \in SortOutcomes(entries, cmp) : TRUE

(***************************************************************************)
(* SpecTags: a sequence of entities is built up tag by tag, then           *)
(* calculateTags runs on it.                                               *)
(***************************************************************************)
TagValues == {<<>>, <<" ">>, <<"a">>, <<"b">>, <<" ", "a">>}

RECURSIVE flatten(_)
flatten(list) == IF list = <<>> THEN <<>> ELSE Head(list).tags \o flatten(Tail(list))

TagsInit == pc = "build" /\ MainIdle /\ ScanIdle /\ FilesIdle /\ TagsIdle

AddSkill ==
    /\ pc = "build"
    /\ Len(skills) < MaxSkills
    /\ skills' = Append(skills, [tags |-> <<>>])
    /\ UNCHANGED <<pc, localRepo, remoteRepoUrl, src, repoPath, packed, saved,
                   downloads, outputFile, contentFiles, tempCloneDir, exitCode,
                   trace, written, scanVars, fileVars, tags>>

AddTag ==
    /\ pc = "build"
    /\ skills # <<>>
    /\ Len(flatten(skills)) < MaxTags
    /\ \E tag \in TagValues :
          skills' = [skills EXCEPT ![Len(skills)].tags = Append(@, tag)]
    /\ UNCHANGED <<pc, localRepo, remoteRepoUrl, src, repoPath, packed, saved,
                   downloads, outputFile, contentFiles, tempCloneDir, exitCode,
                   trace, written, scanVars, fileVars, tags>>

CountTags ==
    /\ pc = "build"
    /\ tags' = calculateTags(skills)
    /\ pc' = "counted"
    /\ UNCHANGED <<localRepo, remoteRepoUrl, src, repoPath, skills, packed, saved,
                   downloads, outputFile, contentFiles, tempCloneDir, exitCode,
                   trace, written, scanVars, fileVars>>

TagsNext == AddSkill \/ AddTag \/ CountTags

SpecTags == TagsInit /\ [][TagsNext]_vars

(***************************************************************************)
(* The skills-repo tree.                                                   *)
(*   indexFile   skills.json: [parses, skillsIsArray, skills], an element  *)
(*               of skills being [isNull, obj]                             *)
(*   jsonDir     skills-json/: [listable, entries], an entry being         *)
(*               [isJsonFile, parses, obj]; parses covers fs.readFile,     *)
(*               JSON.parse and the read of skillData.name                 *)
(*   collection  skills-collection/: [status, entries], an entry being     *)
(*               [name, isDirectory, skillMd, data, content, tree];        *)
(*               skillMd is "ok", "ENOENT" (no SKILL.md), "EACCES" (it     *)
(*               cannot be read) or "invalid" (gray-matter rejects it)     *)
(* A metadata object carries every property, undefined when it is absent   *)
(* (stars: 0); tags is [isArray, items].                                   *)
(***************************************************************************)
NoTags == [isArray |-> FALSE, items |-> <<>>]

Array(items) == [isArray |-> TRUE, items |-> items]

EmptyObject ==
    [name |-> Undefined, description |-> Undefined, version |-> Undefined,
     author |-> Undefined, updatedAt |-> Undefined, tags |-> NoTags,
     stars |-> 0, sourceUrl |-> Undefined]

EmptyMap == [key \in {} |-> EmptyObject]

\* map.set(key, value)
put(m, key, value) ==
    [k \in DOMAIN m \cup {key} |-> IF k = key THEN value ELSE m[k]]

\* map.get(key) || {}
getOrEmpty(m, key) == IF key \in DOMAIN m THEN m[key] ELSE EmptyObject

\* The loop of readSkillsIndex: the map, or a throw on an element that is null.
RECURSIVE indexLoop(_, _)
indexLoop(indexMap, list) ==
    IF list = <<>> THEN [threw |-> FALSE, map |-> indexMap]
    ELSE IF Head(list).isNull THEN [threw |-> TRUE, map |-> indexMap]
    ELSE indexLoop(put(indexMap, Head(list).obj.name, Head(list).obj), Tail(list))

readSkillsIndex(repo) ==
    LET file == repo.indexFile
        loop == indexLoop(EmptyMap, file.skills)
    IN  IF ~file.parses THEN EmptyMap
        ELSE IF ~file.skillsIsArray THEN EmptyMap
        ELSE IF loop.threw THEN EmptyMap
        ELSE loop.map

\* jsonLoop with a try/catch around each file: a bad file is skipped.
RECURSIVE jsonLoopPerFile(_, _)
jsonLoopPerFile(skillsDataMap, list) ==
    IF list = <<>> THEN skillsDataMap
    ELSE LET entry == Head(list)
         IN  IF entry.isJsonFile /\ entry.parses /\ Truthy(entry.obj.name)
             THEN jsonLoopPerFile(put(skillsDataMap, entry.obj.name, entry.obj), Tail(list))
             ELSE jsonLoopPerFile(skillsDataMap, Tail(list))

\* The loop of readSkillsJsonData: a throw leaves the loop with the map as it is.
RECURSIVE jsonLoop(_, _)
jsonLoop(skillsDataMap, list) ==
    IF list = <<>> THEN skillsDataMap
    ELSE LET entry == Head(list)
         IN  IF ~entry.isJsonFile THEN jsonLoop(skillsDataMap, Tail(list))
             ELSE IF ~entry.parses THEN skillsDataMap
             ELSE IF Truthy(entry.obj.name)
                  THEN jsonLoop(put(skillsDataMap, entry.obj.name, entry.obj), Tail(list))
                  ELSE jsonLoop(skillsDataMap, Tail(list))

readSkillsJsonData(repo) ==
    IF ~repo.jsonDir.listable THEN EmptyMap
    ELSE jsonLoop(EmptyMap, repo.jsonDir.entries)

Today == "today"

startsWithDot(name) == name \in {".git"}

\* mergeTags with the front matter consulted first.
mergeTagsFrontMatterFirst(parsedData, jsonData, indexData) ==
    IF parsedData.tags.isArray /\ Len(parsedData.tags.items) > 0
    THEN parsedData.tags.items
    ELSE IF jsonData.tags.isArray /\ Len(jsonData.tags.items) > 0
         THEN jsonData.tags.items
         ELSE IF indexData.tags.isArray THEN indexData.tags.items ELSE <<>>

\* The tags of an entity (lines 284-288).
mergeTags(parsedData, jsonData, indexData) ==
    IF jsonData.tags.isArray /\ Len(jsonData.tags.items) > 0
    THEN jsonData.tags.items
    ELSE IF indexData.tags.isArray /\ Len(indexData.tags.items) > 0
         THEN indexData.tags.items
         ELSE IF parsedData.tags.isArray THEN parsedData.tags.items ELSE <<>>

\* skillRecord with the combined index consulted for author and updatedAt too.
skillRecordIndexEverywhere(entry, indexData, jsonData, fileList) ==
    [id |-> entry.name,
     name |-> Or(entry.data.name, entry.name),
     path |-> entry.name,
     description |-> Or(entry.data.description,
                        Or(jsonData.description, Or(indexData.description, ""))),
     tags |-> mergeTags(entry.data, jsonData, indexData),
     version |-> Or(entry.data.version, Or(jsonData.version, Or(indexData.version, "1.0.0"))),
     author |-> Or(entry.data.author,
                   Or(jsonData.author, Or(indexData.author, "AI-Agent Team"))),
     updatedAt |-> Or(entry.data.updatedAt,
                      Or(jsonData.updatedAt, Or(indexData.updatedAt, Today))),
     stars |-> IF jsonData.stars # 0 THEN jsonData.stars ELSE 0,
     sourceUrl |-> Or(jsonData.sourceUrl, ""),
     files |-> fileList,
     hasMultipleFiles |-> Len(fileList) > 1,
     content |-> entry.content,
     installCommand |-> <<"pa-skills add ", entry.name>>,
     downloadUrl |-> <<"/downloads/", entry.name, ".zip">>]

\* The object scanSkills pushes for one directory (lines 290-308).
skillRecord(entry, indexData, jsonData, fileList) ==
    [id |-> entry.name,
     name |-> Or(entry.data.name, entry.name),
     path |-> entry.name,
     description |-> Or(entry.data.description,
                        Or(jsonData.description, Or(indexData.description, ""))),
     tags |-> mergeTags(entry.data, jsonData, indexData),
     version |-> Or(entry.data.version, Or(jsonData.version, Or(indexData.version, "1.0.0"))),
     author |-> Or(entry.data.author, Or(jsonData.author, "AI-Agent Team")),
     updatedAt |-> Or(entry.data.updatedAt, Or(jsonData.updatedAt, Today)),
     stars |-> IF jsonData.stars # 0 THEN jsonData.stars ELSE 0,
     sourceUrl |-> Or(jsonData.sourceUrl, ""),
     files |-> fileList,
     hasMultipleFiles |-> Len(fileList) > 1,
     content |-> entry.content,
     installCommand |-> <<"pa-skills add ", entry.name>>,
     downloadUrl |-> <<"/downloads/", entry.name, ".zip">>]

\* scanEntry without the test for node_modules.
scanEntryNoExclusion(entry, indexMap, skillsDataMap) ==
    IF ~entry.isDirectory THEN {<<>>}
    ELSE IF startsWithDot(entry.name) THEN {<<>>}
    ELSE IF entry.skillMd # "ok" THEN {<<>>}
    ELSE LET lists == scanSkillFiles(entry.tree, entry.name)
         IN  IF lists = {} THEN {<<>>}
             ELSE {<<skillRecord(entry, getOrEmpty(indexMap, entry.name),
                                 getOrEmpty(skillsDataMap, entry.name), fileList)>> :
                     fileList \in lists}

\* One turn of scanSkills' loop: what it may push, <<>> when it pushes nothing.
scanEntry(entry, indexMap, skillsDataMap) ==
    IF ~entry.isDirectory THEN {<<>>}
    ELSE IF startsWithDot(entry.name) \/ entry.name = "node_modules" THEN {<<>>}
    ELSE IF entry.skillMd # "ok" THEN {<<>>}
    ELSE LET lists == scanSkillFiles(entry.tree, entry.name)
         IN  IF lists = {} THEN {<<>>}
             ELSE {<<skillRecord(entry, getOrEmpty(indexMap, entry.name),
                                 getOrEmpty(skillsDataMap, entry.name), fileList)>> :
                     fileList \in lists}

RECURSIVE scanEntries(_, _, _)
scanEntries(entries, indexMap, skillsDataMap) ==
    IF entries = <<>> THEN {<<>>}
    ELSE {first \o rest :
            first \in scanEntry(Head(entries), indexMap, skillsDataMap),
            rest \in scanEntries(Tail(entries), indexMap, skillsDataMap)}

\* scanSkills: every result the call may have: [threw, skills] with the two maps.
scanSkills(repo) ==
    LET indexMap == readSkillsIndex(repo)
        skillsDataMap == readSkillsJsonData(repo)
        result(threw, list) ==
            [threw |-> threw, skills |-> list,
             skillsIndex |-> indexMap, skillsJsonData |-> skillsDataMap]
    IN  IF repo.collection.status = "missing" THEN {result(FALSE, <<>>)}
        ELSE IF repo.collection.status = "notdir" THEN {result(TRUE, <<>>)}
        ELSE {result(FALSE, list) :
                list \in scanEntries(repo.collection.entries, indexMap, skillsDataMap)}

(***************************************************************************)
(* The scan specifications: src is drawn from a family of repositories,    *)
(* then scanSkills runs on it.                                             *)
(***************************************************************************)
SeqsUpTo(S, n) == UNION {[1..k -> S] : k \in 0..n}

ids(list) == [i \in DOMAIN list |-> list[i].id]

ScanSkills ==
    /\ pc = "ready"
    /\ \E r \in scanSkills(src) :
          /\ skills' = r.skills
          /\ skillsIndex' = r.skillsIndex
          /\ skillsJsonData' = r.skillsJsonData
          /\ pc' = IF r.threw THEN "threw" ELSE "returned"
    /\ UNCHANGED <<localRepo, remoteRepoUrl, src, repoPath, packed, saved,
                   downloads, outputFile, contentFiles, tempCloneDir, exitCode,
                   trace, written, fileVars, tags>>

ScanNext == ScanSkills

\* A metadata object of source s: each value names the source it comes from.
sourceTags(s) ==
    CASE s = "fm" -> <<<<"f">>>>
      [] s = "json" -> <<<<"j">>, <<"k">>>>
      [] s = "index" -> <<<<"i">>>>

ObjChoices(s, skillName) ==
    {[name |-> skillName, description |-> d, version |-> v, author |-> a,
      updatedAt |-> u, tags |-> t, stars |-> 0, sourceUrl |-> Undefined] :
        d \in {Undefined, s}, v \in {Undefined, s}, a \in {Undefined, s},
        u \in {Undefined, s}, t \in {NoTags, Array(<<>>), Array(sourceTags(s))}}

PlainObj(s, skillName) ==
    [name |-> skillName, description |-> s, version |-> Undefined, author |-> s,
     updatedAt |-> Undefined, tags |-> Array(sourceTags(s)), stars |-> 0,
     sourceUrl |-> Undefined]

IndexFile(parses, skillsIsArray, list) ==
    [parses |-> parses, skillsIsArray |-> skillsIsArray, skills |-> list]

IndexEntry(obj) == [isNull |-> FALSE, obj |-> obj]

NullEntry == [isNull |-> TRUE, obj |-> EmptyObject]

JsonDir(listable, entries) == [listable |-> listable, entries |-> entries]

JsonFile(isJsonFile, parses, obj) ==
    [isJsonFile |-> isJsonFile, parses |-> parses, obj |-> obj]

Collection(status, entries) == [status |-> status, entries |-> entries]

SkillDir(name, skillMd, data, skillTree) ==
    [name |-> name, isDirectory |-> TRUE, skillMd |-> skillMd, data |-> data,
     content |-> "body", tree |-> skillTree]

PlainFile(name) ==
    [name |-> name, isDirectory |-> FALSE, skillMd |-> "ENOENT", data |-> EmptyObject,
     content |-> "", tree |-> <<>>]

Repo(indexFile, jsonDir, collection) ==
    [indexFile |-> indexFile, jsonDir |-> jsonDir, collection |-> collection]

\* SpecMerge: one entity, alpha, whose three metadata sources vary field by field.
MergeRepos ==
    {Repo(IndexFile(TRUE, TRUE, <<IndexEntry(ix)>>),
          JsonDir(TRUE, <<JsonFile(TRUE, TRUE, js)>>),
          Collection("dir", <<SkillDir("alpha", "ok", fm, <<File("SKILL.md")>>)>>)) :
        ix \in ObjChoices("index", "alpha"),
        js \in ObjChoices("json", "alpha"),
        fm \in ObjChoices("fm", Undefined)}

MergeInit ==
    /\ pc = "ready" /\ src \in MergeRepos /\ skills = <<>>
    /\ RunIdle /\ ScanIdle /\ FilesIdle /\ TagsIdle

SpecMerge == MergeInit /\ [][ScanNext]_vars

\* SpecReaders: two sound entities; the health of the two metadata sources varies.
IndexChoices ==
    {IndexFile(FALSE, FALSE, <<>>)}
    \cup {IndexFile(TRUE, FALSE, <<>>)}
    \cup {IndexFile(TRUE, TRUE, list) :
            list \in SeqsUpTo({IndexEntry(PlainObj("index", "alpha")),
                               IndexEntry(PlainObj("index", "beta")),
                               NullEntry}, MaxIndexEntries)}

JsonDirChoices ==
    {JsonDir(FALSE, <<>>)}
    \cup {JsonDir(TRUE, list) :
            list \in SeqsUpTo({JsonFile(TRUE, TRUE, PlainObj("json", "alpha")),
                               JsonFile(TRUE, TRUE, PlainObj("json", "beta")),
                               JsonFile(TRUE, TRUE, PlainObj("json", Undefined)),
                               JsonFile(TRUE, FALSE, EmptyObject),
                               JsonFile(FALSE, FALSE, EmptyObject)}, MaxJsonFiles)}

TwoSkills ==
    Collection("dir", <<SkillDir("alpha", "ok", EmptyObject, <<File("SKILL.md")>>),
                        SkillDir("beta", "ok", EmptyObject, <<File("SKILL.md")>>)>>)

ReadersInit ==
    /\ pc = "ready"
    /\ src \in {Repo(ix, js, TwoSkills) : ix \in IndexChoices, js \in JsonDirChoices}
    /\ skills = <<>>
    /\ RunIdle /\ ScanIdle /\ FilesIdle /\ TagsIdle

SpecReaders == ReadersInit /\ [][ScanNext]_vars

\* SpecScan: the entries of skills-collection vary.
EntryChoices(name) ==
    CASE name = "alpha" ->
            {SkillDir(name, "ok", EmptyObject, <<File("SKILL.md")>>),
             SkillDir(name, "ok", EmptyObject, <<File("a.md"), File("SKILL.md")>>),
             SkillDir(name, "ok", EmptyObject,
                      <<File("SKILL.md"), Dir("lib", FALSE, <<>>)>>),
             SkillDir(name, "ENOENT", EmptyObject, <<File("a.md")>>),
             SkillDir(name, "EACCES", EmptyObject, <<File("SKILL.md")>>),
             SkillDir(name, "invalid", EmptyObject, <<File("SKILL.md")>>),
             PlainFile(name)}
      [] name = "beta" ->
            {SkillDir(name, "ok", EmptyObject, <<File("SKILL.md")>>),
             SkillDir(name, "ENOENT", EmptyObject, <<>>)}
      [] OTHER -> {SkillDir(name, "ok", EmptyObject, <<File("SKILL.md")>>)}

EntryNames == {"alpha", "beta", ".git", "node_modules"}

Listings ==
    {list \in SeqsUpTo(UNION {EntryChoices(name) : name \in EntryNames}, MaxEntries) :
        \A i, j \in DOMAIN list : i # j => list[i].name # list[j].name}

CollectionChoices ==
    {Collection("missing", <<>>), Collection("notdir", <<>>)}
    \cup {Collection("dir", list) : list \in Listings}

ScanInit ==
    /\ pc = "ready"
    /\ src \in {Repo(ix, js, c) :
                   ix \in {IndexFile(FALSE, FALSE, <<>>),
                           IndexFile(TRUE, TRUE, <<IndexEntry(PlainObj("index", "alpha"))>>)},
                   js \in {JsonDir(FALSE, <<>>),
                           JsonDir(TRUE, <<JsonFile(TRUE, TRUE, PlainObj("json", "beta"))>>)},
                   c \in CollectionChoices}
    /\ skills = <<>>
    /\ RunIdle /\ ScanIdle /\ FilesIdle /\ TagsIdle

SpecScan == ScanInit /\ [][ScanNext]_vars

(***************************************************************************)
(* Spec: main().  Each step of main is an action; a step that throws goes  *)
(* to main's catch, which ends the process with status 1.  When a process  *)
(* has ended, Launch starts the next one on the same disk: downloads,      *)
(* outputFile, contentFiles and tempCloneDir are what the run before left. *)
(*   trace    the steps the run has entered, "failed" after a throw        *)
(*   written  the output files the run has written                         *)
(***************************************************************************)
StepOrder ==
    <<"clean-outputs", "locate-repo", "scan-entities", "package-all",
      "generate-index", "persist-content", "cleanup-temp">>

enter(step) == IF trace # <<>> /\ trace[Len(trace)] = step THEN trace ELSE Append(trace, step)

\* main's catch (lines 562-565), reached from a throw in step.
catch(step) ==
    /\ pc' = "done"
    /\ exitCode' = 1
    /\ trace' = Append(enter(step), "failed")

\* The skills-repo trees a run may find.
FrontMatter(tagList) ==
    [name |-> Undefined, description |-> "fm", version |-> Undefined, author |-> Undefined,
     updatedAt |-> Undefined, tags |-> Array(tagList), stars |-> 0, sourceUrl |-> Undefined]

NoMetadata == Repo(IndexFile(FALSE, FALSE, <<>>), JsonDir(FALSE, <<>>), Collection("missing", <<>>))

RunRepos ==
    {[NoMetadata EXCEPT !.collection = c] :
        c \in {Collection("missing", <<>>),
               Collection("notdir", <<>>),
               Collection("dir", <<SkillDir("alpha", "invalid", EmptyObject,
                                            <<File("SKILL.md")>>)>>),
               Collection("dir", <<SkillDir("alpha", "ok", FrontMatter(<<<<"a">>>>),
                                            <<File("SKILL.md")>>)>>),
               Collection("dir", <<SkillDir("alpha", "ok", FrontMatter(<<<<"a">>>>),
                                            <<File("SKILL.md")>>),
                                   SkillDir("beta", "ok", FrontMatter(<<<<"b">>, <<"a">>>>),
                                            <<File("SKILL.md"), File("run.sh")>>)>>)}}

\* generateIndex (lines 458-488); remote is CONFIG.remoteRepoUrl.
generateIndex(list, remote) ==
    [meta |-> [generatedAt |-> Today,
               sourceRepo |-> IF remote THEN "remoteRepoUrl" ELSE "local",
               total |-> Len(list),
               version |-> "1.0.0"],
     tags |-> calculateTags(list),
     skills |-> [i \in DOMAIN list |->
                   [id |-> list[i].id, name |-> list[i].name, path |-> list[i].path,
                    description |-> list[i].description, tags |-> list[i].tags,
                    version |-> list[i].version, author |-> list[i].author,
                    updatedAt |-> list[i].updatedAt, stars |-> list[i].stars,
                    sourceUrl |-> list[i].sourceUrl, files |-> list[i].files,
                    hasMultipleFiles |-> list[i].hasMultipleFiles,
                    downloadUrl |-> list[i].downloadUrl,
                    installCommand |-> list[i].installCommand]]]

NewRun ==
    /\ pc' = "init"
    /\ localRepo' \in BOOLEAN
    /\ remoteRepoUrl' \in BOOLEAN
    /\ src' \in RunRepos
    /\ repoPath' = "none"
    /\ skills' = <<>>
    /\ packed' = 0
    /\ saved' = 0
    /\ exitCode' = 0
    /\ trace' = <<>>
    /\ written' = {}

Init ==
    /\ pc = "init"
    /\ localRepo \in BOOLEAN
    /\ remoteRepoUrl \in BOOLEAN
    /\ src \in RunRepos
    /\ repoPath = "none" /\ skills = <<>> /\ packed = 0 /\ saved = 0
    /\ downloads = {} /\ outputFile = <<>> /\ contentFiles = {} /\ tempCloneDir = FALSE
    /\ exitCode = 0 /\ trace = <<>> /\ written = {}
    /\ ScanIdle /\ FilesIdle /\ TagsIdle

\* The next invocation of the script, on the disk the last one left.
Launch ==
    /\ pc = "done"
    /\ NewRun
    /\ UNCHANGED <<downloads, outputFile, contentFiles, tempCloneDir,
                   scanVars, fileVars, tags>>

\* Lines 497-506: the output directories are made, the old downloads unlinked.
\* A throw of ensureDir leaves every download; a throw of fs.unlink leaves the file
\* it was called on and those not yet reached.
CleanOutputs ==
    /\ pc = "init"
    /\ \/ /\ downloads' = {}
          /\ pc' = "locate"
          /\ trace' = enter("clean-outputs")
          /\ UNCHANGED exitCode
       \/ /\ downloads' \in SUBSET downloads
          /\ downloads # {} => downloads' # {}
          /\ catch("clean-outputs")
    /\ UNCHANGED <<localRepo, remoteRepoUrl, src, repoPath, skills, packed, saved,
                   outputFile, contentFiles, tempCloneDir, written,
                   scanVars, fileVars, tags>>

\* getRepoPath (lines 144-181), called at line 509.
getRepoPath ==
    /\ pc = "locate"
    /\ \/ /\ localRepo
          /\ repoPath' = "local"
          /\ pc' = "scan"
          /\ trace' = enter("locate-repo")
          /\ UNCHANGED <<tempCloneDir, exitCode>>
       \/ /\ ~localRepo /\ remoteRepoUrl
          /\ tempCloneDir' = TRUE
          /\ repoPath' = "temp"
          /\ pc' = "scan"
          /\ trace' = enter("locate-repo")
          /\ UNCHANGED exitCode
       \/ /\ ~localRepo /\ remoteRepoUrl
          /\ tempCloneDir' \in BOOLEAN
          /\ catch("locate-repo")
          /\ UNCHANGED repoPath
       \/ /\ ~localRepo /\ ~remoteRepoUrl
          /\ catch("locate-repo")
          /\ UNCHANGED <<tempCloneDir, repoPath>>
    /\ UNCHANGED <<localRepo, remoteRepoUrl, src, skills, packed, saved, downloads,
                   outputFile, contentFiles, written, scanVars, fileVars, tags>>

\* afterScan with the zero-entity return left out.
afterScanNoReturn(list) == "package"

\* Lines 517-520: main returns when scanSkills found nothing.
afterScan(list) == IF Len(list) = 0 THEN "done" ELSE "package"

\* Lines 514-520: scanSkills, then the zero-entity return.
ScanEntities ==
    /\ pc = "scan"
    /\ \E r \in scanSkills(src) :
          \/ /\ ~r.threw
             /\ skills' = r.skills
             /\ pc' = afterScan(r.skills)
             /\ trace' = enter("scan-entities")
             /\ UNCHANGED exitCode
          \/ /\ r.threw
             /\ catch("scan-entities")
             /\ UNCHANGED skills
    /\ UNCHANGED <<localRepo, remoteRepoUrl, src, repoPath, packed, saved, downloads,
                   outputFile, contentFiles, tempCloneDir, written,
                   scanVars, fileVars, tags>>

\* Lines 524-526: packSkill (lines 419-453) for the next skill.
PackSkill ==
    /\ pc = "package"
    /\ packed < Len(skills)
    /\ \/ /\ downloads' = downloads \cup {skills[packed + 1].id}
          /\ written' = written \cup {<<"zip", skills[packed + 1].id>>}
          /\ packed' = packed + 1
          /\ trace' = enter("package-all")
          /\ UNCHANGED <<pc, exitCode>>
       \/ /\ catch("package-all")
          /\ UNCHANGED <<downloads, written, packed>>
    /\ UNCHANGED <<localRepo, remoteRepoUrl, src, repoPath, skills, saved,
                   outputFile, contentFiles, tempCloneDir, scanVars, fileVars, tags>>

\* GenerateIndex, entered as soon as one skill is packed.
GenerateIndexEarly ==
    /\ pc = "package"
    /\ packed >= 1
    /\ outputFile' = <<generateIndex(skills, remoteRepoUrl)>>
    /\ written' = written \cup {<<"index">>}
    /\ pc' = "content"
    /\ trace' = enter("generate-index")
    /\ UNCHANGED <<localRepo, remoteRepoUrl, src, repoPath, skills, packed, saved,
                   downloads, contentFiles, tempCloneDir, exitCode,
                   scanVars, fileVars, tags>>

\* Lines 531-532: the index is generated and written, after the packaging loop.
GenerateIndex ==
    /\ pc = "package"
    /\ packed = Len(skills)
    /\ \/ /\ outputFile' = <<generateIndex(skills, remoteRepoUrl)>>
          /\ written' = written \cup {<<"index">>}
          /\ pc' = "content"
          /\ trace' = enter("generate-index")
          /\ UNCHANGED exitCode
       \/ /\ catch("generate-index")
          /\ UNCHANGED <<outputFile, written>>
    /\ UNCHANGED <<localRepo, remoteRepoUrl, src, repoPath, skills, packed, saved,
                   downloads, contentFiles, tempCloneDir, scanVars, fileVars, tags>>

\* Lines 536-545: the content file of the next skill is written.
SaveContent ==
    /\ pc = "content"
    /\ saved < Len(skills)
    /\ \/ /\ contentFiles' = contentFiles \cup {skills[saved + 1].id}
          /\ written' = written \cup {<<"content", skills[saved + 1].id>>}
          /\ saved' = saved + 1
          /\ trace' = enter("persist-content")
          /\ UNCHANGED <<pc, exitCode>>
       \/ /\ catch("persist-content")
          /\ UNCHANGED <<contentFiles, written, saved>>
    /\ UNCHANGED <<localRepo, remoteRepoUrl, src, repoPath, skills, packed,
                   downloads, outputFile, tempCloneDir, scanVars, fileVars, tags>>

\* Lines 556-561: the temp clone is removed if it is what getRepoPath returned.
CleanupTemp ==
    /\ pc = "content"
    /\ saved = Len(skills)
    /\ \/ /\ repoPath = "temp"
          /\ tempCloneDir' = FALSE
          /\ pc' = "done"
          /\ trace' = enter("cleanup-temp")
          /\ UNCHANGED exitCode
       \/ /\ repoPath = "temp"
          /\ catch("cleanup-temp")
          /\ UNCHANGED tempCloneDir
       \/ /\ repoPath # "temp"
          /\ pc' = "done"
          /\ trace' = enter("cleanup-temp")
          /\ UNCHANGED <<tempCloneDir, exitCode>>
    /\ UNCHANGED <<localRepo, remoteRepoUrl, src, repoPath, skills, packed, saved,
                   downloads, outputFile, contentFiles, written,
                   scanVars, fileVars, tags>>

Next ==
    \/ Launch
    \/ CleanOutputs
    \/ getRepoPath
    \/ ScanEntities
    \/ PackSkill
    \/ GenerateIndex
    \/ SaveContent
    \/ CleanupTemp

Spec == Init /\ [][Next]_vars

(***************************************************************************)
(*                              PROPERTIES                                 *)
(***************************************************************************)

pushed == scanDir(tree, <<>>, "skill").files

pushIndex(f) == CHOOSE i \in DOMAIN pushed : pushed[i] = f

descriptors == {i \in DOMAIN files : files[i].name = "SKILL.md"}

\* C3 as claimed: the list scanSkillFiles returns has the top-level SKILL.md at
\* position 0, and the remaining files in ascending code-unit order of their names.
C3_DescriptorFirstOrdinal ==
    pc = "scanned" =>
        /\ files[1].relativePath = <<"SKILL.md">>
        /\ \A i, j \in 2..Len(files) :
              i < j => OrdinalRank(files[i].name) <= OrdinalRank(files[j].name)

\* C3 amended: the list holds every file of the tree once; position 0 holds a file
\* named SKILL.md, the top-level one when no nested file bears that name; every file
\* named SKILL.md precedes every other file; the other files are in ascending
\* localeCompare order of their names, files of one name in traversal order.
C3_DescriptorFirstLocale ==
    pc = "scanned" =>
        /\ Len(files) = Len(pushed)
        /\ Range(files) = Range(pushed)
        /\ files[1].name = "SKILL.md"
        /\ Cardinality(descriptors) = 1 => files[1].relativePath = <<"SKILL.md">>
        /\ \A i, j \in DOMAIN files :
              (i \in descriptors /\ j \notin descriptors) => i < j
        /\ \A i, j \in DOMAIN files \ descriptors :
              i < j =>
                \/ LocaleRank(files[i].name) < LocaleRank(files[j].name)
                \/ /\ files[i].name = files[j].name
                   /\ pushIndex(files[i]) < pushIndex(files[j])

\* C3's case: a scanned tree with a sub-directory, in which a nested SKILL.md comes
\* first and the two orders disagree on the other files (a.md and B.md).
C3_Witness ==
    /\ pc = "scanned"
    /\ Len(files[1].relativePath) > 1
    /\ \E i, j \in DOMAIN files :
          /\ i < j
          /\ files[i].name = "a.md" /\ files[j].name = "B.md"

flat == flatten(skills)

occurrences(t) == Cardinality({i \in DOMAIN flat : flat[i] = t})

firstSeen(t) == CHOOSE i \in DOMAIN flat : flat[i] = t /\ \A j \in 1..(i - 1) : flat[j] # t

blank(t) == \A i \in DOMAIN t : t[i] = " "

\* C4: calculateTags returns one {name, count} record per distinct tag that is not
\* blank, its count the number of occurrences of the tag over all entities, the
\* records by count descending and, for equal counts, in first-seen order.
C4_TagSummary ==
    pc = "counted" =>
        /\ {tags[i].name : i \in DOMAIN tags} = {t \in Range(flat) : ~blank(t)}
        /\ \A i, j \in DOMAIN tags : i # j => tags[i].name # tags[j].name
        /\ \A i \in DOMAIN tags :
              tags[i].count = occurrences(tags[i].name) /\ tags[i].count >= 1
        /\ \A i, j \in DOMAIN tags :
              i < j =>
                \/ tags[i].count > tags[j].count
                \/ /\ tags[i].count = tags[j].count
                   /\ firstSeen(tags[i].name) < firstSeen(tags[j].name)

\* C4's case: a blank tag was dropped and the sort moved a later tag to the front.
C4_Witness ==
    /\ pc = "counted"
    /\ \E i \in DOMAIN flat : blank(flat[i])
    /\ Len(tags) = 2
    /\ tags[1].count = 2
    /\ firstSeen(tags[1].name) > firstSeen(tags[2].name)

\* The metadata of entity id in its three sources, as scanSkills looks them up.
fmOf(id) == (CHOOSE e \in Range(src.collection.entries) : e.name = id).data

jsonOf(id) == IF id \in DOMAIN skillsJsonData THEN skillsJsonData[id] ELSE EmptyObject

indexOf(id) == IF id \in DOMAIN skillsIndex THEN skillsIndex[id] ELSE EmptyObject

nonEmpty(v) == v # Undefined /\ v # ""

firstNonEmpty(candidates, default) ==
    IF \E i \in DOMAIN candidates : nonEmpty(candidates[i])
    THEN candidates[CHOOSE i \in DOMAIN candidates :
                       /\ nonEmpty(candidates[i])
                       /\ \A j \in 1..(i - 1) : ~nonEmpty(candidates[j])]
    ELSE default

\* C1 as claimed: each of description, version, author and updatedAt of an entity is
\* the first non-empty value of front matter, per-entity JSON, combined index, default.
C1_ScalarPrecedence ==
    pc = "returned" =>
        \A i \in DOMAIN skills :
            LET e == skills[i]
                fm == fmOf(e.id)
                js == jsonOf(e.id)
                ix == indexOf(e.id)
            IN  /\ e.description
                     = firstNonEmpty(<<fm.description, js.description, ix.description>>, "")
                /\ e.version = firstNonEmpty(<<fm.version, js.version, ix.version>>, "1.0.0")
                /\ e.author = firstNonEmpty(<<fm.author, js.author, ix.author>>, "AI-Agent Team")
                /\ e.updatedAt
                     = firstNonEmpty(<<fm.updatedAt, js.updatedAt, ix.updatedAt>>, Today)

\* C1 amended: description and version are the first non-empty value of front matter,
\* per-entity JSON, combined index, default; author and updatedAt are the first
\* non-empty value of front matter, per-entity JSON, default: the combined index is not
\* consulted for them.
C1_ScalarPrecedenceAmended ==
    pc = "returned" =>
        \A i \in DOMAIN skills :
            LET e == skills[i]
                fm == fmOf(e.id)
                js == jsonOf(e.id)
                ix == indexOf(e.id)
            IN  /\ e.description
                     = firstNonEmpty(<<fm.description, js.description, ix.description>>, "")
                /\ e.version = firstNonEmpty(<<fm.version, js.version, ix.version>>, "1.0.0")
                /\ e.author = firstNonEmpty(<<fm.author, js.author>>, "AI-Agent Team")
                /\ e.updatedAt = firstNonEmpty(<<fm.updatedAt, js.updatedAt>>, Today)

\* C1's case: an entity whose author and description only the combined index supplies.
C1_Witness ==
    /\ pc = "returned"
    /\ \E i \in DOMAIN skills :
          LET e == skills[i]
          IN  /\ nonEmpty(indexOf(e.id).author) /\ nonEmpty(indexOf(e.id).description)
              /\ ~nonEmpty(fmOf(e.id).author) /\ ~nonEmpty(jsonOf(e.id).author)
              /\ ~nonEmpty(fmOf(e.id).description) /\ ~nonEmpty(jsonOf(e.id).description)
              /\ e.description = "index"
              /\ e.author = "AI-Agent Team"

nonEmptyArray(t) == t.isArray /\ t.items # <<>>

\* C2: the tags of an entity are those of one source whole: the per-entity JSON tags
\* if a non-empty array, else the combined-index tags if a non-empty array, else the
\* front-matter tags if an array, else the empty list.
C2_TagPrecedence ==
    pc = "returned" =>
        \A i \in DOMAIN skills :
            LET e == skills[i]
                fm == fmOf(e.id).tags
                js == jsonOf(e.id).tags
                ix == indexOf(e.id).tags
            IN  /\ nonEmptyArray(js) => e.tags = js.items
                /\ (~nonEmptyArray(js) /\ nonEmptyArray(ix)) => e.tags = ix.items
                /\ (~nonEmptyArray(js) /\ ~nonEmptyArray(ix) /\ fm.isArray)
                      => e.tags = fm.items
                /\ (~nonEmptyArray(js) /\ ~nonEmptyArray(ix) /\ ~fm.isArray)
                      => e.tags = <<>>

\* C2's case: all three sources carry tags, and the entity has the per-entity JSON's.
C2_Witness ==
    /\ pc = "returned"
    /\ \E i \in DOMAIN skills :
          /\ nonEmptyArray(fmOf(skills[i].id).tags)
          /\ nonEmptyArray(indexOf(skills[i].id).tags)
          /\ nonEmptyArray(jsonOf(skills[i].id).tags)
          /\ skills[i].tags = <<<<"j">>, <<"k">>>>

indexMalformed ==
    \/ ~src.indexFile.parses
    \/ ~src.indexFile.skillsIsArray
    \/ \E i \in DOMAIN src.indexFile.skills : src.indexFile.skills[i].isNull

jsonFiles == src.jsonDir.entries

badJsonFiles == {i \in DOMAIN jsonFiles : jsonFiles[i].isJsonFile /\ ~jsonFiles[i].parses}

\* The .json files read before the first that fails, those with a name.
readJsonFiles ==
    {i \in DOMAIN jsonFiles :
        /\ jsonFiles[i].isJsonFile /\ jsonFiles[i].parses
        /\ nonEmpty(jsonFiles[i].obj.name)
        /\ \A j \in badJsonFiles : i < j}

\* With both maps as they are, scanSkills went on with the sources that are left.
scanWentOn ==
    /\ pc = "returned"
    /\ ids(skills) = <<"alpha", "beta">>
    /\ \A i \in DOMAIN skills :
          skills[i].description
            = IF skills[i].id \in DOMAIN skillsJsonData THEN "json"
              ELSE IF skills[i].id \in DOMAIN skillsIndex THEN "index" ELSE ""

\* C8 as claimed: when skills.json cannot be read or parsed, when skills-json cannot
\* be listed or when one of its .json files cannot be read or parsed, the reader
\* returns an empty mapping, and scanSkills goes on.
C8_EmptyMappingOnFailure ==
    pc # "ready" =>
        /\ indexMalformed => skillsIndex = EmptyMap
        /\ (~src.jsonDir.listable \/ badJsonFiles # {}) => skillsJsonData = EmptyMap
        /\ scanWentOn

\* C8 amended: a skills.json that cannot be read or parsed gives an empty mapping, and
\* so does a skills-json that cannot be listed; a .json file that cannot be read or
\* parsed ends the reading: the mapping holds the files listed before it, and none
\* after it.  In every case scanSkills goes on.
C8_PartialMappingOnFailure ==
    pc # "ready" =>
        /\ indexMalformed => skillsIndex = EmptyMap
        /\ ~src.jsonDir.listable => skillsJsonData = EmptyMap
        /\ src.jsonDir.listable =>
              /\ DOMAIN skillsJsonData = {jsonFiles[i].obj.name : i \in readJsonFiles}
              /\ \A i \in readJsonFiles :
                    (\A j \in readJsonFiles : jsonFiles[j].obj.name = jsonFiles[i].obj.name
                                                => j <= i)
                    => skillsJsonData[jsonFiles[i].obj.name] = jsonFiles[i].obj
        /\ scanWentOn

\* C8's case: skills.json is malformed and a .json file fails after one was read.
C8_Witness ==
    /\ pc = "returned"
    /\ indexMalformed
    /\ badJsonFiles # {}
    /\ readJsonFiles # {}
    /\ Len(skills) = 2

RECURSIVE listable(_)
listable(dir) ==
    \A i \in DOMAIN dir : dir[i].isDir => (dir[i].readable /\ listable(dir[i].children))

candidate(e) ==
    /\ e.isDirectory
    /\ e.name \notin {".git", "node_modules"}
    /\ e.skillMd = "ok"

RECURSIVE select(_, _)
select(list, keep) ==
    IF list = <<>> THEN <<>>
    ELSE (IF Head(list) \in keep THEN <<Head(list).name>> ELSE <<>>)
         \o select(Tail(list), keep)

\* C9 as claimed: when skills-collection exists, scanSkills returns one entity for each
\* sub-directory that is not hidden, is not node_modules and whose SKILL.md is read and
\* parsed without error, in listing order, its id the directory name; no directory
\* stops the scan.
C9_OneEntityPerDescriptor ==
    (pc # "ready" /\ src.collection.status = "dir") =>
        /\ pc = "returned"
        /\ ids(skills)
             = select(src.collection.entries,
                      {e \in Range(src.collection.entries) : candidate(e)})

\* C9 amended: the same, for each such sub-directory whose file tree is also listed
\* without error: a sub-directory that cannot be listed below it drops the entity.
C9_OneEntityPerScannedDirectory ==
    (pc # "ready" /\ src.collection.status = "dir") =>
        /\ pc = "returned"
        /\ ids(skills)
             = select(src.collection.entries,
                      {e \in Range(src.collection.entries) :
                          candidate(e) /\ listable(e.tree)})

\* C9's case: a directory that fails is followed by one that yields an entity.
C9_Witness ==
    /\ pc = "returned"
    /\ Len(src.collection.entries) = 2
    /\ src.collection.entries[1].isDirectory
    /\ src.collection.entries[1].skillMd \in {"EACCES", "invalid"}
    /\ ids(skills) = <<src.collection.entries[2].name>>

failed == trace # <<>> /\ trace[Len(trace)] = "failed"

steps == IF failed THEN SubSeq(trace, 1, Len(trace) - 1) ELSE trace

lastStep == IF steps = <<>> THEN "none" ELSE steps[Len(steps)]

\* scanSkills has returned, with no entity.
scannedNothing ==
    /\ "scan-entities" \in Range(steps)
    /\ ~(failed /\ lastStep = "scan-entities")
    /\ skills = <<>>

\* C5: a run whose scan yields no entity ends right after the scan: nothing is
\* packaged or written, no later step is entered, and the exit status is 0.
C5_ZeroEntitySoftStop ==
    scannedNothing =>
        /\ pc = "done"
        /\ exitCode = 0
        /\ ~failed
        /\ lastStep = "scan-entities"
        /\ written = {}

\* C5's case: skills-collection is missing, the run has ended, an older index is left.
C5_Witness ==
    /\ scannedNothing
    /\ pc = "done"
    /\ src.collection.status = "missing"
    /\ outputFile # <<>>

\* C6: when a run that got a path from getRepoPath has ended, the temp clone is gone
\* if that path was the temp clone, and a local checkout is still there.
C6_TempRemovedIffReturned ==
    (pc = "done" /\ repoPath # "none") =>
        /\ repoPath = "temp" => ~tempCloneDir
        /\ repoPath = "local" => localRepo

\* C7: the steps of a run are entered in the fixed order; a throw ends the run with
\* status 1 and no step after it; the index is written only when every skill is
\* packed; a run whose locator throws writes nothing.
C7_StepOrderAndAbort ==
    /\ Len(steps) <= Len(StepOrder)
    /\ steps = SubSeq(StepOrder, 1, Len(steps))
    /\ "failed" \notin Range(steps)
    /\ failed => (pc = "done" /\ exitCode = 1)
    /\ (pc = "done" /\ ~failed) => exitCode = 0
    /\ \A w \in written :
          /\ w[1] = "zip" => "package-all" \in Range(steps)
          /\ w[1] = "index" => "generate-index" \in Range(steps)
          /\ w[1] = "content" => "persist-content" \in Range(steps)
    /\ <<"index">> \in written =>
          \A i \in DOMAIN skills : <<"zip", skills[i].id>> \in written
    /\ (failed /\ lastStep \in {"clean-outputs", "locate-repo", "scan-entities"})
          => written = {}
    /\ (failed /\ lastStep = "package-all") => <<"index">> \notin written

\* C7's case: packaging threw after one skill was packed, and the run ended there.
C7_Witness ==
    /\ pc = "done"
    /\ failed
    /\ lastStep = "package-all"
    /\ packed = 1
    /\ Len(skills) = 2

\* C10: when a run has ended and an index file is on disk, every skill the index lists
\* has its archive in the downloads directory.
C10_IndexedSkillsHaveArchives ==
    (pc = "done" /\ outputFile # <<>>) =>
        \A i \in DOMAIN outputFile[1].skills : outputFile[1].skills[i].id \in downloads

=============================================================================
